---- MODULE Spec2Model ----
(***************************************************************************)
(* k-means (Lloyd's algorithm) over 2D points: the normalizer, the cluster *)
(* initializer and the convergence loop of src/utils/cluster.ts and        *)
(* src/utils/parse_csv.ts.                                                 *)
(*                                                                         *)
(* Numbers.  A JavaScript number is modelled as an exact fraction <<n, d>> *)
(* in lowest terms with d > 0; 0/0 is NaN == <<0, 0>>.  IEEE rounding is   *)
(* not modelled: sums, quotients and comparisons are exact.  Every         *)
(* comparison with NaN is false, as in JavaScript.                         *)
(***************************************************************************)
EXTENDS Integers, Sequences, FiniteSets, TLC

VARIABLES pc, entry, input, cluster_size, clusters, hash, is_different, i,
          files, warned, hist, data, normalized, given, returned

vars == <<pc, entry, input, cluster_size, clusters, hash, is_different, i,
          files, warned, hist, data, normalized, given, returned>>

\* pc            where control is: "main", "iterate_clusters", then inside the
\*               loop "while" / "iterate" / "compare", at last "done"
\*               ("normalize" / "normalized" for the normalizer)
\* entry, input, cluster_size
\*               the initializer called and its arguments
\* clusters      iterate_clusters' clusters
\* hash, is_different, i
\*               iterate_clusters' locals
\* files         the snapshots written, in order
\* warned        the number of console.warn calls so far
\* hist          the centroid lists: initially, and after each iterate
\* data, normalized
\*               normalize_raw_data's rows and the points it returns
\* given, returned
\*               for a single call of reassignment_logic or iterate: the
\*               ClusterSet as it was passed in, and the value returned
\*               (clusters is then the argument as the call leaves it)

(***************************************************************************)
(* Bounds of the model.                                                    *)
(***************************************************************************)
MaxPoints == 3
MaxClusterSize == 2
MaxIter == 6
MaxRows == 3

(***************************************************************************)
(* Exact fractions with NaN.                                               *)
(***************************************************************************)
Abs(a) == IF a < 0 THEN -a ELSE a

RECURSIVE GCD(_, _)
GCD(a, b) == IF b = 0 THEN a ELSE GCD(b, a % b)

NaN == <<0, 0>>

IsNaN(v) == v[2] = 0

Norm(v) ==
  IF v[2] = 0 THEN NaN
  ELSE LET s == IF v[2] < 0 THEN -1 ELSE 1
           g == GCD(Abs(v[1]), Abs(v[2]))
       IN  <<(s * v[1]) \div g, (s * v[2]) \div g>>

Num(n) == <<n, 1>>

Frac(n, d) == Norm(<<n, d>>)

RAdd(a, b) ==
  IF IsNaN(a) \/ IsNaN(b) THEN NaN
  ELSE Norm(<<a[1] * b[2] + b[1] * a[2], a[2] * b[2]>>)

RSub(a, b) ==
  IF IsNaN(a) \/ IsNaN(b) THEN NaN
  ELSE Norm(<<a[1] * b[2] - b[1] * a[2], a[2] * b[2]>>)

RMul(a, b) ==
  IF IsNaN(a) \/ IsNaN(b) THEN NaN
  ELSE Norm(<<a[1] * b[1], a[2] * b[2]>>)

\* a / b; the only division by zero the modelled code performs is 0 / 0
RDiv(a, b) ==
  IF IsNaN(a) \/ IsNaN(b) THEN NaN
  ELSE Norm(<<a[1] * b[2], a[2] * b[1]>>)

\* a < b of JavaScript: false when either side is NaN
RLess(a, b) == ~IsNaN(a) /\ ~IsNaN(b) /\ a[1] * b[2] < b[1] * a[2]

\* Math.min / Math.max: NaN when either argument is NaN
MathMin(a, b) == IF IsNaN(a) \/ IsNaN(b) THEN NaN ELSE IF RLess(b, a) THEN b ELSE a

MathMax(a, b) == IF IsNaN(a) \/ IsNaN(b) THEN NaN ELSE IF RLess(a, b) THEN b ELSE a

(***************************************************************************)
(* Points, centroids, clusters.                                            *)
(***************************************************************************)
UndefColor == "undefined"

Pt(x, y, color) == [x |-> x, y |-> y, color |-> color]

\* a cluster's centroid: a Point, or undefined (def = FALSE)
Undefined == [def |-> FALSE, x |-> NaN, y |-> NaN, color |-> UndefColor]

Centroid(x, y, color) == [def |-> TRUE, x |-> x, y |-> y, color |-> color]

Cluster(points, centroid) == [points |-> points, centroid |-> centroid]

\* getRandomColor draws from a palette; two draws may return the same colour
Palette == {"red", "blue"}

RECURSIVE SumPoints(_, _)
SumPoints(points, acc) ==
  IF points = <<>> THEN acc
  ELSE SumPoints(Tail(points),
                 [x |-> RAdd(acc.x, Head(points).x), y |-> RAdd(acc.y, Head(points).y)])

\* variant: the sums are divided by points.length + 1
average_div_plus_one(points, color) ==
  LET sum == SumPoints(points, [x |-> Num(0), y |-> Num(0)])
  IN  Centroid(RDiv(sum.x, Num(Len(points) + 1)), RDiv(sum.y, Num(Len(points) + 1)), color)

average(points, color) ==
  LET sum == SumPoints(points, [x |-> Num(0), y |-> Num(0)])
  IN  Centroid(RDiv(sum.x, Num(Len(points))), RDiv(sum.y, Num(Len(points))), color)

\* The distance is kept as its square dx*dx + dy*dy: Math.sqrt is strictly
\* increasing on the non-negative reals, so d < min_distance orders the
\* square roots exactly as it orders the squares, and sqrt(NaN) is NaN.
euclideanDistance(p1, p2) ==
  LET dx == RSub(p2.x, p1.x)
      dy == RSub(p2.y, p1.y)
  IN  RAdd(RMul(dx, dx), RMul(dy, dy))

\* Number.MAX_SAFE_INTEGER = 2^53 - 1 does not fit TLC's integers; it is kept
\* symbolic.  Every modelled coordinate and raw value has magnitude at most 3,
\* so every distance and raw value that is a number is below it.
MAX_SAFE_INTEGER == <<-1, 0>>

\* variant: d <= min_distance
DistLess_or_equal(d, min_distance) ==
  IF min_distance = MAX_SAFE_INTEGER THEN ~IsNaN(d)
  ELSE RLess(d, min_distance) \/ (~IsNaN(d) /\ d = min_distance)

\* d < min_distance
DistLess(d, min_distance) ==
  IF min_distance = MAX_SAFE_INTEGER THEN ~IsNaN(d) ELSE RLess(d, min_distance)

RECURSIVE Flatten(_)
Flatten(ss) == IF ss = <<>> THEN <<>> ELSE Head(ss) \o Flatten(Tail(ss))

AllPoints(cs) == Flatten([k \in 1..Len(cs) |-> cs[k].points])

AllCentroids(cs) == [k \in 1..Len(cs) |-> cs[k].centroid]

\* the inner for-loop over the centroids, from index j on (1-based here)
RECURSIVE ScanCentroids(_, _, _, _)
ScanCentroids(point, all_centroids, j, st) ==
  IF j > Len(all_centroids) THEN st
  ELSE LET centroid == all_centroids[j] IN
       IF ~centroid.def THEN [st EXCEPT !.threw = TRUE]
       ELSE LET d == euclideanDistance(centroid, point) IN
            IF DistLess(d, st.min_distance)
            THEN ScanCentroids(point, all_centroids, j + 1,
                   [threw |-> FALSE, min_distance |-> d,
                    closestClusterIndex |-> j, color |-> centroid.color])
            ELSE ScanCentroids(point, all_centroids, j + 1, st)

Closest(point, all_centroids) ==
  ScanCentroids(point, all_centroids, 1,
    [threw |-> FALSE, min_distance |-> MAX_SAFE_INTEGER,
     closestClusterIndex |-> 0, color |-> "teal"])

\* the outer for-loop over the pooled points; closestClusterIndex 0 here is
\* the code's -1 (no cluster)
RECURSIVE AssignPoints(_, _, _)
AssignPoints(all_points, all_centroids, acc) ==
  IF all_points = <<>> \/ acc.threw THEN acc
  ELSE LET point == Head(all_points)
           c == Closest(point, all_centroids)
       IN  IF c.threw THEN [acc EXCEPT !.threw = TRUE]
           ELSE IF c.closestClusterIndex # 0
           THEN AssignPoints(Tail(all_points), all_centroids,
                  [acc EXCEPT !.newClusterPoints[c.closestClusterIndex] =
                                  Append(@, [point EXCEPT !.color = c.color])])
           ELSE AssignPoints(Tail(all_points), all_centroids,
                  [acc EXCEPT !.warned = @ + 1])

\* variant: the loop over the pooled points starts at the second point
reassignment_skip_first(cs) ==
  LET pool == AllPoints(cs)
      r == AssignPoints(IF pool = <<>> THEN pool ELSE Tail(pool), AllCentroids(cs),
             [threw |-> FALSE, warned |-> 0,
              newClusterPoints |-> [k \in 1..Len(cs) |-> <<>>]])
  IN  [threw |-> r.threw, warned |-> r.warned,
       clusters |-> IF r.threw THEN cs
                    ELSE [k \in 1..Len(cs) |->
                            Cluster(r.newClusterPoints[k], cs[k].centroid)]]

\* variant: the assigned points are pushed onto the lists the clusters already
\* have (newClusterPoints is not started empty)
reassignment_keeps_old(cs) ==
  LET r == AssignPoints(AllPoints(cs), AllCentroids(cs),
             [threw |-> FALSE, warned |-> 0,
              newClusterPoints |-> [k \in 1..Len(cs) |-> cs[k].points]])
  IN  [threw |-> r.threw, warned |-> r.warned,
       clusters |-> IF r.threw THEN cs
                    ELSE [k \in 1..Len(cs) |->
                            Cluster(r.newClusterPoints[k], cs[k].centroid)]]

\* result: threw (the Error was thrown), warned (console.warn calls), and the
\* clusters as the call leaves them
reassignment_logic(cs) ==
  LET r == AssignPoints(AllPoints(cs), AllCentroids(cs),
             [threw |-> FALSE, warned |-> 0,
              newClusterPoints |-> [k \in 1..Len(cs) |-> <<>>]])
  IN  [threw |-> r.threw, warned |-> r.warned,
       clusters |-> IF r.threw THEN cs
                    ELSE [k \in 1..Len(cs) |->
                            Cluster(r.newClusterPoints[k], cs[k].centroid)]]

\* variant: average is called without the colour and takes its default, "red"
iterate_default_color(cs) ==
  [threw |-> \E k \in 1..Len(cs) : ~cs[k].centroid.def,
   clusters |-> IF \E k \in 1..Len(cs) : ~cs[k].centroid.def THEN cs
                ELSE [k \in 1..Len(cs) |->
                        Cluster(cs[k].points, average(cs[k].points, "red"))]]

\* result: threw (the Error was thrown) and the new array; the clusters passed
\* in are not written to
iterate(cs) ==
  [threw |-> \E k \in 1..Len(cs) : ~cs[k].centroid.def,
   clusters |-> IF \E k \in 1..Len(cs) : ~cs[k].centroid.def THEN cs
                ELSE [k \in 1..Len(cs) |->
                        Cluster(cs[k].points,
                                average(cs[k].points, cs[k].centroid.color))]]

\* JSON.stringify of a number: NaN is written null
JsonNumber(v) == IF IsNaN(v) THEN <<"null">> ELSE <<"number", v[1], v[2]>>

\* JSON.stringify of a centroid inside an array: undefined is written null
JsonCentroid(c) ==
  IF ~c.def THEN <<"null">> ELSE <<JsonNumber(c.x), JsonNumber(c.y), c.color>>

\* variant: only the first centroid is serialized
hashCentroids_first_only(cs) ==
  IF cs = <<>> THEN <<>> ELSE <<JsonCentroid(cs[1].centroid)>>

\* SHA-256 is taken as collision free: the digest is the serialized text
hashCentroids(cs) == [k \in 1..Len(cs) |-> JsonCentroid(cs[k].centroid)]

HD_X == 1920
HD_Y == 1080

\* the document: per cluster, one marker per point and the centroid's crosshair
createClusterSVG(cs, width, height) ==
  [threw |-> \E k \in 1..Len(cs) : ~cs[k].centroid.def,
   doc |-> [k \in 1..Len(cs) |->
             [polygons |-> [n \in 1..Len(cs[k].points) |->
                              <<RMul(cs[k].points[n].x, Num(width)),
                                RMul(cs[k].points[n].y, Num(height)),
                                cs[k].points[n].color>>],
              crosshair |-> <<RMul(cs[k].centroid.x, Num(width)),
                              RMul(cs[k].centroid.y, Num(height)),
                              cs[k].centroid.color>>]]]

(***************************************************************************)
(* The cluster initializer.                                                *)
(***************************************************************************)
\* variant: (i + 1) % cluster_size
JsRem_of_next(a, b) == IF b = 0 THEN NaN ELSE Num((a + 1) % Abs(b))

\* i % cluster_size for i >= 0: NaN when cluster_size is 0, else the
\* remainder by |cluster_size| (the result takes the dividend's sign)
JsRem(a, b) == IF b = 0 THEN NaN ELSE Num(a % Abs(b))

\* a raw field: a string (val is the number its text spells) or a number
Str(v) == [type |-> "string", val |-> v]

Number(v) == [type |-> "number", val |-> v]

parseFloat(s) == s.val

\* variant: last_cluster.points = [point]
PushPoint_overwrite(cl, point) == [cl EXCEPT ![Len(cl)] = <<point>>]

\* last_cluster.points.push(point)
PushPoint(cl, point) == [cl EXCEPT ![Len(cl)] = Append(@, point)]

\* the first for-loop of the initializer.  each element e is turned into a
\* point by MakePoint; draws[k] is what the k-th getRandomColor() returns
RECURSIVE DivideLoop(_, _, _, _, _)
DivideLoop(rest, size, draws, raw, st) ==
  IF rest = <<>> THEN st
  ELSE LET opens == JsRem(st.i, size) = Num(0)
           color == IF opens THEN draws[st.ndraws + 1] ELSE st.color
           ndraws == IF opens THEN st.ndraws + 1 ELSE st.ndraws
           cl == IF opens THEN Append(st.clusters, <<>>) ELSE st.clusters
           e == Head(rest)
           point == IF raw THEN Pt(parseFloat(e.d1), parseFloat(e.d2), color)
                    ELSE [e EXCEPT !.color = color]
       IN  IF cl = <<>>
           THEN DivideLoop(Tail(rest), size, draws, raw,
                  [st EXCEPT !.color = color, !.ndraws = ndraws, !.clusters = cl])
           ELSE DivideLoop(Tail(rest), size, draws, raw,
                  [i |-> st.i + 1, color |-> color, ndraws |-> ndraws,
                   clusters |-> PushPoint(cl, point)])

\* the second for-loop: a centroid for every cluster that holds a point
SetCentroids(lists) ==
  [k \in 1..Len(lists) |->
     Cluster(lists[k],
             IF Len(lists[k]) > 0 THEN average(lists[k], lists[k][1].color)
             ELSE Undefined)]

DivideStart == [i |-> 0, color |-> "", ndraws |-> 0, clusters |-> <<>>]

divide_and_set_clusters(points, size, draws) ==
  SetCentroids(DivideLoop(points, size, draws, FALSE, DivideStart).clusters)

divide_data_set_clusters(my_data, size, draws) ==
  SetCentroids(DivideLoop(my_data, size, draws, TRUE, DivideStart).clusters)

\* how many times the initializer calls getRandomColor on this input
DrawCount(in, size, raw) ==
  DivideLoop(in, size, [k \in 1..(Len(in) + 1) |-> "red"], raw, DivideStart).ndraws

(***************************************************************************)
(* Inputs.  Normalized coordinates lie in [0, 1]; a degenerate axis or an  *)
(* unparsable field gives NaN.                                             *)
(***************************************************************************)
Half == Frac(1, 2)

InputPoints ==
  { Pt(Num(0), Num(0), UndefColor), Pt(Num(1), Num(0), UndefColor),
    Pt(Half, Num(1), UndefColor), Pt(NaN, Num(0), UndefColor) }

InputRows ==
  { [index |-> "0", d1 |-> Str(p.x), d2 |-> Str(p.y)] : p \in InputPoints }

SeqsUpTo(S, n) == UNION { [1..m -> S] : m \in 0..n }

ClusterSizes == (-1)..MaxClusterSize

NoData == <<>>

(***************************************************************************)
(* The pipeline of main.ts: initializer, then iterate_clusters.            *)
(***************************************************************************)
\* what every run starts with, apart from the call's arguments
Start ==
  /\ pc = "main"
  /\ clusters = <<>>
  /\ hash = <<>>
  /\ is_different = TRUE
  /\ i = 0
  /\ files = <<>>
  /\ warned = 0
  /\ hist = <<>>
  /\ data = NoData
  /\ normalized = <<>>
  /\ given = <<>>
  /\ returned = <<>>

\* main.ts: points, and a positive cluster size (ELEMENTS_PER_CLUSTER, 30)
Init ==
  /\ Start
  /\ entry = "points"
  /\ input \in SeqsUpTo(InputPoints, MaxPoints)
  /\ cluster_size \in 1..MaxClusterSize

\* the same, on inputs free of NaN
InitFinite ==
  /\ Init
  /\ \A n \in 1..Len(input) : ~IsNaN(input[n].x) /\ ~IsNaN(input[n].y)

DivideAndSetClusters ==
  /\ pc = "main"
  /\ entry = "points"
  /\ \E draws \in [1..DrawCount(input, cluster_size, FALSE) -> Palette] :
       clusters' = divide_and_set_clusters(input, cluster_size, draws)
  /\ pc' = "iterate_clusters"
  /\ UNCHANGED <<entry, input, cluster_size, hash, is_different, i, files, warned,
                 hist, data, normalized,
                 given, returned>>

DivideDataSetClusters ==
  /\ pc = "main"
  /\ entry = "rows"
  /\ \E draws \in [1..DrawCount(input, cluster_size, TRUE) -> Palette] :
       clusters' = divide_data_set_clusters(input, cluster_size, draws)
  /\ pc' = "iterate_clusters"
  /\ UNCHANGED <<entry, input, cluster_size, hash, is_different, i, files, warned,
                 hist, data, normalized,
                 given, returned>>

\* lines 253-255: the first fingerprint, taken before any reassignment
FirstHash ==
  /\ pc = "iterate_clusters"
  /\ hash' = hashCentroids(clusters)
  /\ is_different' = TRUE
  /\ i' = 0
  /\ hist' = <<AllCentroids(clusters)>>
  /\ pc' = "while"
  /\ UNCHANGED <<entry, input, cluster_size, clusters, files, warned, data, normalized,
                 given, returned>>

FileName(n) == <<"./svg/points_0", n, ".svg">>

\* variant: the snapshot is rendered from the clusters as they were before
\* the reassignment
RenderInput_before_reassign(cs) == [threw |-> FALSE, warned |-> 0, clusters |-> cs]

\* what line 259 hands to createClusterSVG
RenderInput(cs) == reassignment_logic(cs)

\* lines 256-260: reassign in place, render, write the snapshot
ReassignAndRender ==
  /\ pc = "while"
  /\ is_different
  /\ i < MaxIter   \* the model follows at most MaxIter cycles
  /\ LET r == reassignment_logic(clusters)
         svg == createClusterSVG(RenderInput(clusters).clusters, HD_X, HD_Y)
     IN  IF r.threw \/ svg.threw
         THEN /\ pc' = "thrown"
              /\ UNCHANGED <<clusters, files, warned>>
         ELSE /\ clusters' = r.clusters
              /\ warned' = warned + r.warned
              /\ files' = Append(files, [name |-> FileName(i), text |-> svg.doc])
              /\ pc' = "iterate"
  /\ UNCHANGED <<entry, input, cluster_size, hash, is_different, i, hist, data, normalized,
                 given, returned>>

\* line 261
Iterate ==
  /\ pc = "iterate"
  /\ LET r == iterate(clusters)
     IN  IF r.threw
         THEN pc' = "thrown" /\ UNCHANGED <<clusters, hist>>
         ELSE /\ clusters' = r.clusters
              /\ hist' = Append(hist, AllCentroids(r.clusters))
              /\ pc' = "compare"
  /\ UNCHANGED <<entry, input, cluster_size, hash, is_different, i, files, warned,
                 data, normalized,
                 given, returned>>

\* variant: the digests are compared as two (distinct) promises
IsDifferent_no_await(h, tmp_hash) == TRUE

\* line 263
IsDifferent(h, tmp_hash) == h # tmp_hash

\* lines 262-265
Compare ==
  /\ pc = "compare"
  /\ LET tmp_hash == hashCentroids(clusters)
     IN  /\ is_different' = IsDifferent(hash, tmp_hash)
         /\ hash' = tmp_hash
  /\ i' = i + 1
  /\ pc' = "while"
  /\ UNCHANGED <<entry, input, cluster_size, clusters, files, warned, hist, data, normalized,
                 given, returned>>

\* line 256: the while test fails and iterate_clusters returns
Exit ==
  /\ pc = "while"
  /\ ~is_different
  /\ pc' = "done"
  /\ UNCHANGED <<entry, input, cluster_size, clusters, hash, is_different, i, files,
                 warned, hist, data, normalized,
                 given, returned>>

\* main.ts calls divide_and_set_clusters, then iterate_clusters
Next ==
  \/ DivideAndSetClusters
  \/ FirstHash
  \/ ReassignAndRender
  \/ Iterate
  \/ Compare
  \/ Exit

Spec == Init /\ [][Next]_vars

FiniteSpec == InitFinite /\ [][Next]_vars

TypeOK ==
  /\ pc \in {"main", "iterate_clusters", "while", "iterate", "compare", "done", "thrown"}
  /\ i \in 0..MaxIter
  /\ pc # "thrown"

(***************************************************************************)
(* The initializer on its own: either entry point, any cluster_size.       *)
(***************************************************************************)
InitInitializer ==
  /\ Start
  /\ entry \in {"points", "rows"}
  /\ input \in SeqsUpTo(IF entry = "points" THEN InputPoints ELSE InputRows, MaxPoints)
  /\ cluster_size \in ClusterSizes

NextInitializer ==
  \/ DivideAndSetClusters
  \/ DivideDataSetClusters

InitializerSpec == InitInitializer /\ [][NextInitializer]_vars

(***************************************************************************)
(* The normalizer.                                                         *)
(***************************************************************************)
\* Math.min(min, v) where min may still be the initial MAX_SAFE_INTEGER,
\* which every modelled raw value is below
MinWith(min, v) ==
  IF min = MAX_SAFE_INTEGER THEN v ELSE MathMin(min, v)

\* point.d1 = typeof point.d1 !== "number" ? parseFloat(point.d1) : point.d1
Coerce(f) == IF f.type # "number" THEN Number(parseFloat(f)) ELSE f

CoerceRow(row) == [row EXCEPT !.d1 = Coerce(row.d1), !.d2 = Coerce(row.d2)]

RECURSIVE MinMaxLoop(_, _)
MinMaxLoop(rest, st) ==
  IF rest = <<>> THEN st
  ELSE LET point == CoerceRow(Head(rest))
       IN  MinMaxLoop(Tail(rest),
             [min_x |-> MinWith(st.min_x, point.d1.val),
              min_y |-> MinWith(st.min_y, point.d2.val),
              max_x |-> MathMax(st.max_x, point.d1.val),
              max_y |-> MathMax(st.max_y, point.d2.val),
              rows |-> Append(st.rows, point)])

\* the result, and the rows as the call leaves them
get_min_max_raw_data(rows) ==
  MinMaxLoop(rows, [min_x |-> MAX_SAFE_INTEGER, min_y |-> MAX_SAFE_INTEGER,
                    max_x |-> Num(0), max_y |-> Num(0), rows |-> <<>>])

\* one pass of the loop of lines 353-360 over one row
NormalizeRow(row, mm) ==
  LET point == CoerceRow(row)
  IN  [point EXCEPT
         !.d1 = Number(RDiv(RSub(point.d1.val, mm.min_x), RSub(mm.max_x, mm.min_x))),
         !.d2 = Number(RDiv(RSub(point.d2.val, mm.min_y), RSub(mm.max_y, mm.min_y)))]

\* the points returned, and the rows as the call leaves them
normalize_raw_data(rows, color) ==
  LET mm == get_min_max_raw_data(rows)
      out == [k \in 1..Len(rows) |-> NormalizeRow(mm.rows[k], mm)]
  IN  [points |-> [k \in 1..Len(rows) |-> Pt(out[k].d1.val, out[k].d2.val, color)],
       rows |-> out]

RawNums == {-2, -1, 1, 3}

RawRows(type) ==
  { [index |-> "0", d1 |-> [type |-> type, val |-> Num(a)],
                    d2 |-> [type |-> type, val |-> Num(b)]] : a, b \in RawNums }

InitNormalizer ==
  /\ pc = "normalize"
  /\ \E type \in {"string", "number"} : data \in SeqsUpTo(RawRows(type), MaxRows)
  /\ normalized = <<>>
  /\ entry = "rows"
  /\ input = data
  /\ cluster_size = 0
  /\ clusters = <<>>
  /\ hash = <<>>
  /\ is_different = TRUE
  /\ i = 0
  /\ files = <<>>
  /\ warned = 0
  /\ hist = <<>>
  /\ given = <<>>
  /\ returned = <<>>

NormalizeRawData ==
  /\ pc = "normalize"
  /\ \E color \in Palette :
       LET r == normalize_raw_data(data, color)
       IN  /\ normalized' = r.points
           /\ data' = r.rows
  /\ pc' = "normalized"
  /\ UNCHANGED <<entry, input, cluster_size, clusters, hash, is_different, i, files,
                 warned, hist, given, returned>>

NormalizerSpec == InitNormalizer /\ [][NormalizeRawData]_vars

(***************************************************************************)
(* A single call of reassignment_logic or of iterate, on any ClusterSet    *)
(* the Cluster type admits (a centroid may be undefined).                  *)
(***************************************************************************)
MaxClusters == 2

CallPoints == { Pt(Num(0), Num(0), "red"), Pt(Num(1), Num(0), UndefColor) }

CallCentroids ==
  { Undefined, Centroid(Num(0), Num(0), "blue"), Centroid(Num(1), Num(0), "red"),
    Centroid(NaN, NaN, "blue") }

CallClusters ==
  { Cluster(ps, c) : ps \in SeqsUpTo(CallPoints, MaxClusterSize), c \in CallCentroids }

\* at most MaxClusters clusters that hold at most MaxPoints points together
CallClusterSets ==
  { cs \in SeqsUpTo(CallClusters, MaxClusters) : Len(AllPoints(cs)) <= MaxPoints }

InitCall ==
  /\ pc = "call"
  /\ clusters \in CallClusterSets
  /\ given = clusters
  /\ returned = <<>>
  /\ entry = ""
  /\ input = <<>>
  /\ cluster_size = 0
  /\ hash = <<>>
  /\ is_different = TRUE
  /\ i = 0
  /\ files = <<>>
  /\ warned = 0
  /\ hist = <<>>
  /\ data = NoData
  /\ normalized = <<>>

\* reassignment_logic(clusters): the argument is rewritten in place and is
\* itself the value returned
CallReassignmentLogic ==
  /\ pc = "call"
  /\ LET r == reassignment_logic(clusters)
     IN  /\ pc' = IF r.threw THEN "thrown" ELSE "returned"
         /\ clusters' = r.clusters
         /\ returned' = IF r.threw THEN <<>> ELSE r.clusters
         /\ warned' = warned + r.warned
  /\ entry' = "reassignment_logic"
  /\ UNCHANGED <<input, cluster_size, hash, is_different, i, files, hist, data,
                 normalized, given>>

\* iterate(clusters): a new array is returned
CallIterate ==
  /\ pc = "call"
  /\ LET r == iterate(clusters)
     IN  /\ pc' = IF r.threw THEN "thrown" ELSE "returned"
         /\ returned' = IF r.threw THEN <<>> ELSE r.clusters
  /\ entry' = "iterate"
  /\ UNCHANGED <<input, cluster_size, clusters, hash, is_different, i, files, warned,
                 hist, data, normalized, given>>

NextCall ==
  \/ CallReassignmentLogic
  \/ CallIterate

ClusterSetSpec == InitCall /\ [][NextCall]_vars

(***************************************************************************)
(* Properties.                                                             *)
(***************************************************************************)
SameCentroids(S, T) == AllCentroids(S) = AllCentroids(T)

AllDefined(S) == \A k \in 1..Len(S) : S[k].centroid.def

\* one more reassign + iterate cycle, started from iterate(S), ends with the
\* centroids of S
CycleKeepsCentroids(S) ==
  SameCentroids(iterate(reassignment_logic(iterate(S).clusters).clusters).clusters, S)

IterateKeepsCentroids(S) == SameCentroids(iterate(S).clusters, S)

\* C1 as stated: for any ClusterSet with all centroids defined, if iterate
\* leaves the centroids as they are, a further reassign + iterate cycle leaves
\* them as they are too.
C1_AnyClusterSet ==
  (pc # "main" /\ AllDefined(clusters) /\ IterateKeepsCentroids(clusters))
    => CycleKeepsCentroids(clusters)

\* C1 amended: the same, for a ClusterSet that reassignment_logic has just
\* returned (its membership is the assignment to its own centroids).
C1_FixedPointAfterReassign ==
  (pc = "iterate" /\ AllDefined(clusters) /\ IterateKeepsCentroids(clusters))
    => CycleKeepsCentroids(clusters)

\* reassignment_logic has just run a second time, both clusters hold points,
\* and iterate would leave the centroids as they are
C1_Witness ==
  /\ pc = "iterate"
  /\ Len(clusters) >= 2
  /\ \A k \in 1..Len(clusters) : Len(clusters[k].points) >= 1
  /\ IterateKeepsCentroids(clusters)
  /\ i >= 1

\* the points of a pool as a multiset of coordinates
Coords(p) == <<p.x, p.y>>

CountOf(c, pool) == Cardinality({n \in 1..Len(pool) : Coords(pool[n]) = c})

SamePoints(poolA, poolB) ==
  /\ Len(poolA) = Len(poolB)
  /\ \A n \in 1..Len(poolA) : CountOf(Coords(poolA[n]), poolA) = CountOf(Coords(poolA[n]), poolB)

\* C2 as stated: with K >= 1 clusters, reassignment_logic keeps every pooled
\* point (same count, same multiset) and warns about none.
C2_ReassignKeepsEveryPoint ==
  (pc # "main" /\ Len(clusters) >= 1)
    => LET r == reassignment_logic(clusters)
       IN  /\ ~r.threw
           /\ r.warned = 0
           /\ SamePoints(AllPoints(r.clusters), AllPoints(clusters))

\* C3 as stated: for every input and every cluster_size the clusters the
\* initializer returns hold as many points as the input has elements.
C3_EveryClusterSize ==
  pc = "iterate_clusters" => Len(AllPoints(clusters)) = Len(input)

\* C3 amended: for every input and every cluster_size other than 0 the clusters
\* the initializer returns hold as many points as the input has elements.
C3_NonZeroClusterSize ==
  (pc = "iterate_clusters" /\ cluster_size # 0)
    => Len(AllPoints(clusters)) = Len(input)

C3_Witness ==
  /\ pc = "iterate_clusters"
  /\ entry = "rows"
  /\ cluster_size = 2
  /\ Len(input) = 3
  /\ Len(clusters) = 2
  /\ Len(AllPoints(clusters)) = 3

\* the distance from centroid m of S to point p
DistTo(S, m, p) == euclideanDistance(S[m].centroid, p)

\* the cluster the claim names for p: its distance to p is a number, no
\* centroid is nearer, and every lower-indexed centroid is farther; 0 if none
IsNearestLowest(S, j, p) ==
  /\ ~IsNaN(DistTo(S, j, p))
  /\ \A m \in 1..Len(S) : ~RLess(DistTo(S, m, p), DistTo(S, j, p))
  /\ \A m \in 1..(j - 1) : IsNaN(DistTo(S, m, p)) \/ RLess(DistTo(S, j, p), DistTo(S, m, p))

\* C4: after reassignment_logic each cluster j holds, in pool order, exactly
\* the pooled points whose nearest centroid is j, the lowest index winning a
\* tie at the minimum distance.
C4_NearestLowestIndex ==
  (pc = "while" /\ is_different /\ AllDefined(clusters))
    => LET r == reassignment_logic(clusters)
           pool == AllPoints(clusters)
       IN  \A j \in 1..Len(clusters) :
             LET InJ(p) == IsNearestLowest(clusters, j, p)
                 mine == SelectSeq(pool, InJ)
             IN  /\ Len(r.clusters[j].points) = Len(mine)
                 /\ \A n \in 1..Len(mine) :
                      Coords(r.clusters[j].points[n]) = Coords(mine[n])

\* a point sits in cluster j although a higher-indexed centroid is as near
C4_Witness ==
  /\ pc = "iterate"
  /\ \E j \in 1..Len(clusters) : \E m \in (j + 1)..Len(clusters) :
       \E n \in 1..Len(clusters[j].points) :
         LET p == clusters[j].points[n]
         IN  /\ DistTo(clusters, j, p) = DistTo(clusters, m, p)
             /\ ~IsNaN(DistTo(clusters, j, p))
             /\ clusters[j].centroid # clusters[m].centroid

\* the sum of a list of numbers, from the right
RECURSIVE SumOf(_)
SumOf(vs) == IF vs = <<>> THEN Num(0) ELSE RAdd(SumOf(Tail(vs)), Head(vs))

\* c is the arithmetic mean of the numbers vs (vs not empty)
IsMeanOf(c, vs) ==
  IF \E n \in 1..Len(vs) : IsNaN(vs[n]) THEN IsNaN(c)
  ELSE ~IsNaN(c) /\ RMul(c, Num(Len(vs))) = SumOf(vs)

CentroidIsMean(cl) ==
  /\ cl.centroid.def
  /\ IsMeanOf(cl.centroid.x, [n \in 1..Len(cl.points) |-> cl.points[n].x])
  /\ IsMeanOf(cl.centroid.y, [n \in 1..Len(cl.points) |-> cl.points[n].y])

\* the initializer, or iterate, was the last to touch the clusters
AfterInitOrIterate == pc \in {"iterate_clusters", "while", "compare", "done"}

\* C5: right after the initializer and right after every iterate, every
\* cluster that holds a point has the arithmetic mean of its points' x and y
\* as its centroid's x and y.
C5_CentroidIsMean ==
  AfterInitOrIterate
    => \A k \in 1..Len(clusters) :
         Len(clusters[k].points) >= 1 => CentroidIsMean(clusters[k])

\* iterate has run twice; a cluster holds two different points
C5_Witness ==
  /\ pc = "compare"
  /\ i >= 1
  /\ \E k \in 1..Len(clusters) :
       /\ Len(clusters[k].points) >= 2
       /\ Coords(clusters[k].points[1]) # Coords(clusters[k].points[2])
       /\ ~IsNaN(clusters[k].centroid.x)

\* at least one reassign + iterate cycle has completed
AfterACycle == pc = "compare" \/ (pc \in {"while", "done"} /\ i >= 1)

ColoursFollowCentroids ==
  \A k \in 1..Len(clusters) : \A n \in 1..Len(clusters[k].points) :
    clusters[k].centroid.def /\ clusters[k].points[n].color = clusters[k].centroid.color

\* C6 as stated: after the initializer and at least one reassign + iterate
\* cycle, every point carries the centroid colour of the cluster that lists
\* it, and the clusters together hold as many points as the input had.
C6_ColoursAndCount ==
  AfterACycle
    => /\ ColoursFollowCentroids
       /\ Len(AllPoints(clusters)) = Len(input)

\* the true extremes of an axis over the rows as they were given
IsMinOf(v, vs) == (\E n \in 1..Len(vs) : vs[n] = v) /\ \A n \in 1..Len(vs) : ~RLess(vs[n], v)

IsMaxOf(v, vs) == (\E n \in 1..Len(vs) : vs[n] = v) /\ \A n \in 1..Len(vs) : ~RLess(v, vs[n])

GivenD1 == [n \in 1..Len(input) |-> input[n].d1.val]

GivenD2 == [n \in 1..Len(input) |-> input[n].d2.val]

NotAllEqual(vs) == \E a, b \in 1..Len(vs) : vs[a] # vs[b]

InUnit(v) == ~IsNaN(v) /\ ~RLess(v, Num(0)) /\ ~RLess(Num(1), v)

\* C7 as stated: when neither axis is constant, the row holding the minimum
\* of both axes is mapped to (0,0), the row holding the maximum of both axes
\* to (1,1), and every output coordinate lies in [0,1].
C7_UnitSquare ==
  (pc = "normalized" /\ NotAllEqual(GivenD1) /\ NotAllEqual(GivenD2))
    => \A n \in 1..Len(normalized) :
         /\ InUnit(normalized[n].x) /\ InUnit(normalized[n].y)
         /\ (IsMinOf(GivenD1[n], GivenD1) /\ IsMinOf(GivenD2[n], GivenD2))
              => (normalized[n].x = Num(0) /\ normalized[n].y = Num(0))
         /\ (IsMaxOf(GivenD1[n], GivenD1) /\ IsMaxOf(GivenD2[n], GivenD2))
              => (normalized[n].x = Num(1) /\ normalized[n].y = Num(1))

\* hist[n + 1] is the centroid list after the n-th iterate, hist[1] the
\* initial one
Changed(n) == hist[n + 1] # hist[n]

\* C8: the loop stops after cycle n >= 1 exactly when the centroid list after
\* the n-th iterate equals the one after the (n-1)-th: it has stopped only
\* after such a cycle, every earlier cycle changed the list, and it goes on
\* for another cycle exactly when the last one changed it.
C8_StopsWhenCentroidsRepeat ==
  /\ pc = "done" => (i >= 1 /\ ~Changed(i))
  /\ pc \in {"while", "done"} => \A n \in 1..(i - 1) : Changed(n)
  /\ (pc = "while" /\ i >= 1) => (is_different <=> Changed(i))
  /\ (pc = "while" /\ i = 0) => is_different

\* the loop has stopped after its second cycle: the first changed the
\* centroids, the second did not
C8_Witness == pc = "done" /\ i = 2 /\ Changed(1) /\ ~Changed(2)

C10_SnapshotPerCycle ==
  /\ pc \in {"while", "done"} => (Len(files) = i /\ Len(hist) = i + 1)
  /\ pc = "iterate" => (Len(files) = i + 1 /\ Len(hist) = i + 1)
  /\ pc = "compare" => (Len(files) = i + 1 /\ Len(hist) = i + 2)
  /\ \A n \in 1..Len(files) : files[n].name = FileName(n - 1)
  /\ pc = "iterate"
       => /\ files[Len(files)].text = createClusterSVG(clusters, HD_X, HD_Y).doc
          /\ AllCentroids(clusters) = hist[Len(hist)]
          /\ clusters = reassignment_logic(clusters).clusters

\* the second snapshot has just been written and differs from the first
C10_Witness ==
  /\ pc = "iterate"
  /\ i = 1
  /\ Len(files) = 2
  /\ files[2].text # files[1].text

\* C11 as stated: reassignment_logic throws whenever a cluster of the
\* ClusterSet it is given has an undefined centroid, however many points the
\* clusters hold.
C11_ThrowsOnUndefinedCentroid ==
  (pc \in {"returned", "thrown"} /\ entry = "reassignment_logic" /\ ~AllDefined(given))
    => pc = "thrown"

\* C12: for N input elements and cluster_size >= 1 the initializer returns
\* ceil(N / cluster_size) clusters that hold the elements in input order; every
\* cluster but the last holds cluster_size points, the last between 1 and
\* cluster_size, and none is empty.
C12_InitializerShape ==
  (pc = "iterate_clusters" /\ cluster_size >= 1)
    => LET N == Len(input)
           K == Len(clusters)
           pool == AllPoints(clusters)
           Elem(n) == IF entry = "rows" THEN <<input[n].d1.val, input[n].d2.val>>
                      ELSE Coords(input[n])
       IN  /\ K = (N + cluster_size - 1) \div cluster_size
           /\ Len(pool) = N
           /\ \A n \in 1..N : Coords(pool[n]) = Elem(n)
           /\ \A k \in 1..(K - 1) : Len(clusters[k].points) = cluster_size
           /\ K >= 1 => Len(clusters[K].points) = N - (K - 1) * cluster_size
           /\ \A k \in 1..K : Len(clusters[k].points) \in 1..cluster_size

\* three points in chunks of two: a full cluster and a last one with the
\* remainder, the points in input order
C12_Witness ==
  /\ pc = "iterate_clusters"
  /\ entry = "points"
  /\ cluster_size = 2
  /\ Len(clusters) = 2
  /\ Len(clusters[1].points) = 2
  /\ Len(clusters[2].points) = 1
  /\ Coords(input[1]) # Coords(input[2])
  /\ Coords(input[2]) # Coords(input[3])

C14_ReassignmentFrame ==
  (pc = "returned" /\ entry = "reassignment_logic")
    => /\ returned = clusters
       /\ Len(returned) = Len(given)
       /\ \A j \in 1..Len(given) :
            LET InJ(p) == IsNearestLowest(given, j, p)
                mine == SelectSeq(AllPoints(given), InJ)
            IN  /\ returned[j].centroid = given[j].centroid
                /\ Len(returned[j].points) = Len(mine)
                /\ \A n \in 1..Len(mine) :
                     Coords(returned[j].points[n]) = Coords(mine[n])

\* a point has moved from the second cluster to the first and taken its colour
C14_Witness ==
  /\ pc = "returned"
  /\ entry = "reassignment_logic"
  /\ Len(given) = 2
  /\ Len(given[1].points) = 0
  /\ Len(given[2].points) = 2
  /\ Len(returned[1].points) = 1
  /\ Len(returned[2].points) = 1
  /\ returned[1].points[1].color = given[1].centroid.color
  /\ returned[1].points[1].color # given[2].points[1].color

\* C15 as stated: after normalize_raw_data has returned, every row's d1 and d2
\* hold the number its original value parses to, not the rescaled value.
C15_RowsHoldParsedValue ==
  pc = "normalized"
    => \A n \in 1..Len(data) :
         /\ data[n].d1 = Number(input[n].d1.val)
         /\ data[n].d2 = Number(input[n].d2.val)

\* cluster k held no point in the n-th snapshot (after the n-th reassignment)
EmptyInSnapshot(n, k) == Len(files[n].text[k].polygons) = 0

\* C16 as stated: once a reassignment leaves a cluster without points, the
\* next centroid update gives it a NaN centroid, every later reassignment
\* leaves it without points, and the other clusters hold all the points.
C16_EmptyIsAbsorbing ==
  \A n \in 1..Len(files) : \A k \in 1..Len(clusters) :
    EmptyInSnapshot(n, k)
      => /\ Len(hist) >= n + 1
              => (IsNaN(hist[n + 1][k].x) /\ IsNaN(hist[n + 1][k].y))
         /\ \A m \in n..Len(files) : EmptyInSnapshot(m, k)
         /\ Len(clusters[k].points) = 0
         /\ Len(AllPoints(clusters)) = Len(input)

\* the same without the count of points held
C16_EmptyStaysEmpty ==
  \A n \in 1..Len(files) : \A k \in 1..Len(clusters) :
    EmptyInSnapshot(n, k)
      => /\ Len(hist) >= n + 1
              => (IsNaN(hist[n + 1][k].x) /\ IsNaN(hist[n + 1][k].y))
         /\ \A m \in n..Len(files) : EmptyInSnapshot(m, k)
         /\ Len(clusters[k].points) = 0

\* a cluster emptied by the first reassignment is still empty after the second
C16_Reached ==
  /\ pc = "done"
  /\ Len(files) >= 2
  /\ \E k \in 1..Len(clusters) : EmptyInSnapshot(1, k) /\ EmptyInSnapshot(2, k)
  /\ Len(AllPoints(clusters)) = Len(input)
  /\ Len(input) >= 2

====
